---- MODULE Spec2Model ----
(***************************************************************************)
(* Candidate-evaluation backend (server.js): the collection registry, the  *)
(* lazy vector-store provisioner, the file routes and the query endpoints  *)
(* with their text extraction, as a state machine.                         *)
(*                                                                         *)
(* Node runs one handler segment at a time: a handler runs from one await  *)
(* to the next without interruption, and segments of different requests    *)
(* interleave freely.  One action below is one such segment: it takes the  *)
(* answer of the remote call the request was waiting for (the call's       *)
(* effect on the remote service happens in the same step), runs the        *)
(* handler up to its next await and issues that call.                      *)
(***************************************************************************)
EXTENDS Integers, Sequences, FiniteSets, TLC

\* ------------------------------------------------------------------ bounds
\* Requests handled in one run (each may overlap with every other one).
MaxRequests == 2
\* File ids a DELETE request may name (uploads draw their ids from 1..).
MaxFileId == 2
\* Attachments the pinned store may hold when the process starts (Init).
MaxSeeded == 1
\* The same for the runs that only list (ListInit).
MaxListed == 3
\* Largest created_at among the attachments the pinned store holds at start.
MaxTime == 2
\* Output items of an upstream response, and content entries of a message.
MaxItems == 2
MaxContent == 1
\* Tokens of the reply text a recommendation endpoint parses.
MaxReply == 3

\* ------------------------------------------------------- program constants
\* `initialVectorStoreId || null`: the unset vectorStoreId.
NULL == 0

\* FILE_COLLECTIONS, and Object.values(FILE_COLLECTIONS) in insertion order.
FILE_COLLECTIONS == {"primary", "secondary", "training"}
COLLECTION_LIST == <<"primary", "secondary", "training">>

\* Property names FILE_COLLECTIONS answers without holding a collection under
\* them: an object literal inherits them from Object.prototype
\* (FILE_COLLECTIONS["constructor"] is the function Object).  Such an object
\* has no vectorStoreId until something assigns one to it.
InheritedKeys == {"constructor"}

\* Ids the operator may pin with VECTOR_STORE_ID_1..3 (stores that exist
\* before the process starts).
PinnedIds == {1, 2}

\* The environments of a run: VECTOR_STORE_ID_1, _2, _3 by collection.
EnvConfigs ==
    { [primary |-> NULL, secondary |-> NULL, training |-> NULL],
      [primary |-> 1,    secondary |-> NULL, training |-> NULL] }

\* What :collectionKey may be in a request.
RequestKeys == {"primary", "secondary", "unknown"}
\* req.file: no multipart file, a zero-byte file, a file with bytes.
Payloads == {"absent", "empty", "data"}
\* A vector-store file's status.
Statuses == {"in_progress", "completed", "failed", "cancelled"}
\* created_at of an attachment that carries none.
NoTime == -1

Reqs == 1..MaxRequests
FileIds == 1..MaxFileId

VARIABLES
    env,            \* VECTOR_STORE_ID_n, by collection key
    vectorStoreId,  \* collection.vectorStoreId, by collection key
    stores,         \* remote: the stores created, as the keys they were made for
    storage,        \* remote: ids of the files in file storage
    nfiles,         \* remote: files ever created in file storage
    attached,       \* remote: vector-store files [vs, id, status, created_at]
    req,            \* the requests: handler position and locals, by request
    started         \* requests received so far

vars == <<env, vectorStoreId, stores, storage, nfiles, attached, req, started>>
remote == <<stores, storage, nfiles, attached>>

\* --------------------------------------------------------------- requests
\* A request's record holds the handler's position (pc) and its locals:
\*   vs        the vectorStoreId the handler holds (the value it last read)
\*   fileId    :fileId of a DELETE, or the id files.create returned
\*   files     the vector-store files under buildFileResponse, with the
\*             position (fstate) and the files.retrieve answer (fres) of each
\*   out       the files of the JSON answer
\*   status    the HTTP status of the answer
\* and what the run has to remember about it:
\*   calls     the remote calls it issued
\*   startReg  collection.vectorStoreId when the request was received
\*   prior     the uploads whose ensureVectorStoreForCollection on the same
\*             collection had returned by then
\*   retry     whether such a call had failed by then
\*   repeat    whether a DELETE of the same file had been answered by then
\*   here, elsewhere, stored   for a DELETE: whether the file was attached to
\*             the collection's store by then, the other collections to whose
\*             stores it was attached, whether storage held it
\*   listed    the listing as the service returned it
\*   orphans   the listed files that had no storage record when listed
\*   vsRes, detachRes, delRes   the answers of its create, detach, files.del
\* A query request (/chatbot, /training/...) also holds:
\*   body      the request body: "complete", or "missing" a required property
\*   ids       vectorStoreIds, the ids the handler selected
\*   sent      whether openai.responses.create was called, with `tools` or
\*             not (tool) and the vector_store_ids of the tool (toolIds)
\*   upRes, resp   the call's answer and the response it resolved with
\*   text, error   what extractResponseText returned, or the message it threw
\*   reply     the JSON answer: "text", "parsed", "empty" or "error"
\*   reg       the registry when the handler selected the ids
\*   other     what the other selection function gave at that moment
NoCalls == {}

\* A JS value where the handlers expect a string: undefined, a string (s, a
\* sequence of characters), an object whose `value` is a string (s), or an
\* object without a string `value`.
Undefined == [t |-> "undefined", s |-> <<>>]

\* A response that is null or undefined.
NoResponse == [present |-> FALSE, output_text |-> Undefined, output |-> <<>>]

BlankReq ==
    [ op |-> "none", key |-> "none", fileId |-> 0, file |-> "absent",
      pc |-> "idle", vs |-> NULL, startReg |-> NULL, prior |-> {},
      retry |-> FALSE, repeat |-> FALSE, ensured |-> FALSE,
      calls |-> NoCalls, status |-> 0,
      vsRes |-> "none", detachRes |-> "none", delRes |-> "none",
      listed |-> <<>>, orphans |-> {}, files |-> <<>>, fstate |-> <<>>, fres |-> <<>>,
      out |-> <<>>,
      body |-> "none", ids |-> <<>>, other |-> <<>>,
      reg |-> [k \in FILE_COLLECTIONS |-> NULL],
      sent |-> FALSE, tool |-> FALSE, toolIds |-> <<>>,
      upRes |-> "none", resp |-> NoResponse, text |-> <<>>, error |-> "none",
      reply |-> "none",
      here |-> FALSE, elsewhere |-> {}, stored |-> FALSE ]

\* A remote call as the request issued it.
Call(api, vs, id) == [api |-> api, vs |-> vs, id |-> id]

Issue(rec, call, pc) == [rec EXCEPT !.calls = @ \cup {call}, !.pc = pc]

\* res.status(code).json(...): the request is answered.
Respond(rec, code) == [rec EXCEPT !.status = code, !.pc = "done"]

\* Requests take the slots in order: request r is the (started+1)-th one.
CanStart(r) == r = started + 1 /\ req[r].pc = "idle"

\* ------------------------------------------------------------ the registry
\* A collection that starts without the pinned id.
createCollectionUnseeded(initialVectorStoreId) == NULL

createCollection(initialVectorStoreId) ==
    IF initialVectorStoreId # NULL THEN initialVectorStoreId ELSE NULL

\* `key ? FILE_COLLECTIONS[key] ?? null : null`: the property lookup answers
\* for the three collections and for the inherited names; vectorStoreId holds
\* the vectorStoreId property of what it answers with.
getCollection(key) ==
    IF key \in DOMAIN vectorStoreId THEN key ELSE "null"

\* ------------------------------------------------------- the remote service
\* The id the service gives the next store it creates: none that exists.
FreshStoreId == Cardinality(PinnedIds) + Len(stores) + 1

IsAttached(vs, id) == \E a \in attached : a.vs = vs /\ a.id = id

\* The answers a call may get: "ok", "404" (the thing named is not there) or
\* "err" (any other failure: a 5xx, the network).
CreateAnswers == {"ok", "err"}
AttachAnswers(id) == IF id \in storage THEN {"ok", "err"} ELSE {"404", "err"}
RetrieveAnswers(id) == IF id \in storage THEN {"ok", "err"} ELSE {"404", "err"}
DetachAnswers(vs, id) == IF IsAttached(vs, id) THEN {"ok", "err"} ELSE {"404", "err"}
FileDelAnswers(id) == IF id \in storage THEN {"ok", "err"} ELSE {"404", "err"}
ListAnswers == {"ok", "err"}

Detached(vs, id, res) ==
    IF res = "ok" THEN {a \in attached : ~(a.vs = vs /\ a.id = id)} ELSE attached

FileDeleted(id, res) == IF res = "ok" THEN storage \ {id} ELSE storage

\* A handler that takes no answer for a 404.
NotFoundNever(res) == FALSE

\* err.status !== 404 && err.statusCode !== 404
NotFound(res) == res = "404"

\* The files attached to a store that have no storage record.
Orphans(vs) == {a.id : a \in {b \in attached : b.vs = vs /\ b.id \notin storage}}

\* The listing of a store, in the order the service returns it (by file id).
Listing(vs) ==
    LET ids == SelectSeq([i \in 1..nfiles |-> i], LAMBDA i : IsAttached(vs, i))
    IN  [j \in 1..Len(ids) |-> CHOOSE a \in attached : a.vs = vs /\ a.id = ids[j]]

\* The timestamp the service gives a new attachment: later than those of the
\* attachments it held at the start, and growing.
AttachClock ==
    MaxTime + 1 + Cardinality({q \in Reqs : req[q].op = "upload" /\ req[q].files # <<>>})

\* ------------------------------------------- ensureVectorStoreForCollection
\* A provisioner without the early return.
EnsureCachedNever(k) == FALSE

\* `if (collection.vectorStoreId) return collection.vectorStoreId;`
EnsureCached(k) == vectorStoreId[k] # NULL

\* A provisioner that records an id whatever the create call answered.
RegistryAfterCreateAlways(k, res, id) == [vectorStoreId EXCEPT ![k] = id]

\* `collection.vectorStoreId = store.id` after the awaited create: the write
\* happens only when the create call returned a store.
RegistryAfterCreate(k, res, id) ==
    IF res = "ok" THEN [vectorStoreId EXCEPT ![k] = id] ELSE vectorStoreId

\* The uploads whose ensureVectorStoreForCollection call on k has returned.
Ensured(k) ==
    {q \in Reqs : req[q].op = "upload" /\ req[q].key = k /\ req[q].ensured}

\* Whether an ensureVectorStoreForCollection call on k has thrown.
EnsureFailed(k) ==
    \E q \in Reqs : req[q].op = "upload" /\ req[q].key = k /\ req[q].vsRes = "err"

\* ------------------------------------------------------- buildFileResponse
\* The object buildFileResponse returns; filename is null when the file's
\* metadata could not be loaded.
FileResponse(file, meta) ==
    [ id |-> file.id, status |-> file.status, created_at |-> file.created_at,
      vector_store_id |-> file.vs,
      filename |-> IF meta THEN "name" ELSE "null" ]

\* ------------------------------------------------- POST /files/:collectionKey
\* `if (!incomingFile)`: multer sets req.file for any file part, empty or not.
HasFile(f) == f # "absent"

UploadStart(r, k, f) ==
    /\ CanStart(r)
    /\ LET rec == [BlankReq EXCEPT !.op = "upload", !.key = k, !.file = f]
           ens == [rec EXCEPT !.startReg = vectorStoreId[k], !.prior = Ensured(k),
                           !.retry = EnsureFailed(k)]
       IN  req' = [req EXCEPT ![r] =
             IF getCollection(k) = "null" THEN Respond(rec, 404)
             ELSE IF ~HasFile(f) THEN Respond(rec, 400)
             ELSE IF EnsureCached(k)
                  THEN Issue([ens EXCEPT !.vs = vectorStoreId[k], !.ensured = TRUE],
                             Call("files.create", NULL, 0), "file_create")
                  ELSE Issue(ens, Call("vectorStores.create", NULL, 0), "vs_create")]
    /\ started' = started + 1
    /\ UNCHANGED <<env, vectorStoreId, remote>>

\* openai.vectorStores.create answered: the rest of
\* ensureVectorStoreForCollection, then files.create is issued.
UploadStoreCreated(r, res) ==
    /\ req[r].pc = "vs_create"
    /\ res \in CreateAnswers
    /\ LET k == req[r].key
           reg == RegistryAfterCreate(k, res, FreshStoreId)
       IN  /\ vectorStoreId' = reg
           /\ stores' = IF res = "ok" THEN Append(stores, k) ELSE stores
           /\ req' = [req EXCEPT ![r] =
                 IF res = "ok"
                 THEN Issue([@ EXCEPT !.vs = reg[k], !.ensured = TRUE, !.vsRes = res],
                            Call("files.create", NULL, 0), "file_create")
                 ELSE Respond([@ EXCEPT !.vsRes = res], 500)]
    /\ UNCHANGED <<env, storage, nfiles, attached, started>>

\* openai.files.create answered; vectorStores.files.create is issued.
UploadFileCreated(r, res) ==
    /\ req[r].pc = "file_create"
    /\ res \in CreateAnswers
    /\ IF res = "ok"
       THEN /\ nfiles' = nfiles + 1
            /\ storage' = storage \cup {nfiles + 1}
            /\ req' = [req EXCEPT ![r] =
                  Issue([@ EXCEPT !.fileId = nfiles + 1],
                        Call("vectorStores.files.create", req[r].vs, nfiles + 1),
                        "attach")]
       ELSE /\ req' = [req EXCEPT ![r] = Respond(@, 500)]
            /\ UNCHANGED <<nfiles, storage>>
    /\ UNCHANGED <<env, vectorStoreId, stores, attached, started>>

\* openai.vectorStores.files.create answered; buildFileResponse starts and
\* files.retrieve is issued.
UploadAttached(r, res) ==
    /\ req[r].pc = "attach"
    /\ res \in AttachAnswers(req[r].fileId)
    /\ IF res = "ok"
       THEN LET file == [vs |-> req[r].vs, id |-> req[r].fileId,
                         status |-> "in_progress", created_at |-> AttachClock]
            IN  /\ attached' = attached \cup {file}
                /\ req' = [req EXCEPT ![r] =
                      Issue([@ EXCEPT !.files = <<file>>, !.fstate = <<"retrieve">>],
                            Call("files.retrieve", NULL, file.id), "build")]
       ELSE /\ req' = [req EXCEPT ![r] = Respond(@, 500)]
            /\ UNCHANGED attached
    /\ UNCHANGED <<env, vectorStoreId, stores, storage, nfiles, started>>

\* files.retrieve answered inside buildFileResponse(vectorStoreId, file).
UploadBuilt(r, res) ==
    /\ req[r].pc = "build"
    /\ res \in RetrieveAnswers(req[r].fileId)
    /\ req' = [req EXCEPT ![r] =
          IF NotFound(res)
          THEN Issue([@ EXCEPT !.fstate = <<"prune">>, !.fres = <<res>>],
                     Call("vectorStores.files.del", req[r].vs, req[r].fileId),
                     "build_del")
          ELSE Respond([@ EXCEPT !.fstate = <<IF res = "ok" THEN "kept" ELSE "bare">>,
                                 !.fres = <<res>>,
                                 !.out = <<FileResponse(req[r].files[1], res = "ok")>>],
                       201)]
    /\ UNCHANGED <<env, vectorStoreId, remote, started>>

\* The cleanup detach inside buildFileResponse answered: it returns null.
UploadPruned(r, res) ==
    /\ req[r].pc = "build_del"
    /\ res \in DetachAnswers(req[r].vs, req[r].fileId)
    /\ attached' = Detached(req[r].vs, req[r].fileId, res)
    /\ req' = [req EXCEPT ![r] =
          Respond([@ EXCEPT !.fstate = <<IF res = "ok" THEN "pruned" ELSE "unpruned">>],
                  201)]
    /\ UNCHANGED <<env, vectorStoreId, stores, storage, nfiles, started>>

\* -------------------------------------------------- GET /files/:collectionKey
\* A filter that only drops the failed files.
IsNotFailed(file) == file.status # "failed"

\* `.filter((file) => file.status === 'completed')`
IsCompleted(file) == file.status = "completed"

\* `(b.created_at || 0) - (a.created_at || 0)`: the key of one entry.
SortKey(p) == IF p.created_at = NoTime THEN 0 ELSE p.created_at

\* The comparator with its operands swapped: oldest first.
CompareAscending(a, b) == SortKey(a) - SortKey(b)

\* The comparator of payload.sort: negative keeps a before b.
Compare(a, b) == SortKey(b) - SortKey(a)

\* Array.prototype.sort with that comparator: a stable sort, each entry put
\* behind the entries it does not have to precede.
RECURSIVE SortPayload(_)
SortPayload(s) ==
    IF s = <<>> THEN <<>>
    ELSE LET init == SortPayload(SubSeq(s, 1, Len(s) - 1))
             x == s[Len(s)]
             n == Cardinality({i \in 1..Len(init) : Compare(init[i], x) <= 0})
         IN  SubSeq(init, 1, n) \o <<x>> \o SubSeq(init, n + 1, Len(init))

\* The same without `.filter(Boolean)`: an entry for every file.
PayloadUnfiltered(rec) ==
    [j \in 1..Len(rec.files) |-> FileResponse(rec.files[j], rec.fstate[j] = "kept")]

\* What the Promise.all(...) yields, `.filter(Boolean)` applied: the entries
\* buildFileResponse did not answer null for, in the listing's order.
Payload(rec) ==
    LET idx == SelectSeq([i \in 1..Len(rec.files) |-> i],
                         LAMBDA i : rec.fstate[i] \in {"kept", "bare"})
    IN  [j \in 1..Len(idx) |->
            FileResponse(rec.files[idx[j]], rec.fstate[idx[j]] = "kept")]

Settled(rec) ==
    \A i \in 1..Len(rec.fstate) :
        rec.fstate[i] \in {"kept", "bare", "pruned", "unpruned"}

\* When the last buildFileResponse has answered, the handler sorts and replies.
Settle(rec) ==
    IF Settled(rec)
    THEN Respond([rec EXCEPT !.out = SortPayload(Payload(rec))], 200)
    ELSE rec

\* A listing that asks the service whether or not there is a store.
ListUnprovisionedNever(k) == FALSE

\* `if (!collection.vectorStoreId) return res.json({ files: [] });`
ListUnprovisioned(k) == vectorStoreId[k] = NULL

ListStart(r, k) ==
    /\ CanStart(r)
    /\ LET rec == [BlankReq EXCEPT !.op = "list", !.key = k]
       IN  req' = [req EXCEPT ![r] =
             IF getCollection(k) = "null" THEN Respond(rec, 404)
             ELSE IF ListUnprovisioned(k)
                  THEN Respond([rec EXCEPT !.startReg = NULL], 200)
                  ELSE Issue([rec EXCEPT !.startReg = vectorStoreId[k],
                                         !.vs = vectorStoreId[k]],
                             Call("vectorStores.files.list", vectorStoreId[k], 0),
                             "fetch")]
    /\ started' = started + 1
    /\ UNCHANGED <<env, vectorStoreId, remote>>

\* fetchVectorStoreFiles answered: the completed files are kept and one
\* buildFileResponse(collection.vectorStoreId, file) is started for each; the
\* registry is read again here, after the await.
ListFetched(r, res) ==
    /\ req[r].pc = "fetch"
    /\ res \in ListAnswers
    /\ LET rec == req[r]
           files == SelectSeq(Listing(rec.vs), IsCompleted)
           calls == {Call("files.retrieve", NULL, files[i].id) : i \in 1..Len(files)}
       IN  req' = [req EXCEPT ![r] =
             IF res # "ok" THEN Respond(rec, 500)
             ELSE Settle([rec EXCEPT !.files = files,
                                     !.fstate = [i \in 1..Len(files) |-> "retrieve"],
                                     !.fres = [i \in 1..Len(files) |-> "none"],
                                     !.listed = Listing(rec.vs),
                                     !.orphans = Orphans(rec.vs),
                                     !.vs = vectorStoreId[rec.key],
                                     !.calls = @ \cup calls,
                                     !.pc = "enrich"])]
    /\ UNCHANGED <<env, vectorStoreId, remote, started>>

\* files.retrieve answered inside one buildFileResponse of the listing.
ListRetrieved(r, i, res) ==
    /\ req[r].pc = "enrich"
    /\ i \in 1..Len(req[r].files)
    /\ req[r].fstate[i] = "retrieve"
    /\ res \in RetrieveAnswers(req[r].files[i].id)
    /\ LET rec == req[r]
       IN  req' = [req EXCEPT ![r] =
             IF NotFound(res)
             THEN [rec EXCEPT !.fstate[i] = "prune", !.fres[i] = res,
                              !.calls = @ \cup {Call("vectorStores.files.del",
                                                     rec.vs, rec.files[i].id)}]
             ELSE Settle([rec EXCEPT !.fstate[i] = IF res = "ok" THEN "kept" ELSE "bare",
                                     !.fres[i] = res])]
    /\ UNCHANGED <<env, vectorStoreId, remote, started>>

\* The cleanup detach of one orphaned entry answered (its failure is only
\* warned about): buildFileResponse returns null.
ListPruned(r, i, res) ==
    /\ req[r].pc = "enrich"
    /\ i \in 1..Len(req[r].files)
    /\ req[r].fstate[i] = "prune"
    /\ res \in DetachAnswers(req[r].vs, req[r].files[i].id)
    /\ attached' = Detached(req[r].vs, req[r].files[i].id, res)
    /\ req' = [req EXCEPT ![r] =
          Settle([@ EXCEPT !.fstate[i] = IF res = "ok" THEN "pruned" ELSE "unpruned"])]
    /\ UNCHANGED <<env, vectorStoreId, stores, storage, nfiles, started>>

\* --------------------------------------- DELETE /files/:collectionKey/:fileId
\* A catch around the detach that rethrows a 404 as well.
DetachFatalOn404(res) == res # "ok"

\* `if (err.status !== 404 && err.statusCode !== 404) throw err;` around the
\* detach: what makes the handler answer 500.
DetachFatal(res) == res # "ok" /\ ~NotFound(res)

\* A catch around files.del that rethrows what is not a 404.
FileDelFatalOnError(res) == res = "err"

\* The catch around files.del rethrows nothing.
FileDelFatal(res) == FALSE

\* Whether a DELETE of the same collection and file id has been answered.
DeletedBefore(k, id) ==
    \E q \in Reqs : /\ req[q].op = "delete" /\ req[q].pc = "done"
                    /\ req[q].key = k /\ req[q].fileId = id

\* The other collections to whose stores a file is attached.
AttachedElsewhere(k, id) ==
    {d \in FILE_COLLECTIONS \ {k} :
        /\ vectorStoreId[d] \notin {NULL, vectorStoreId[k]}
        /\ IsAttached(vectorStoreId[d], id)}

\* A DELETE that goes on to the detach whether or not there is a store.
DeleteUnprovisionedNever(k) == FALSE

\* `if (!collection.vectorStoreId) return res.status(404)...` of the DELETE.
DeleteUnprovisioned(k) == vectorStoreId[k] = NULL

DeleteStart(r, k, id) ==
    /\ CanStart(r)
    /\ LET rec == [BlankReq EXCEPT !.op = "delete", !.key = k, !.fileId = id]
       IN  req' = [req EXCEPT ![r] =
             IF getCollection(k) = "null" THEN Respond(rec, 404)
             ELSE IF DeleteUnprovisioned(k)
                  THEN Respond([rec EXCEPT !.repeat = DeletedBefore(k, id)], 404)
                  ELSE Issue([rec EXCEPT !.startReg = vectorStoreId[k],
                                         !.vs = vectorStoreId[k],
                                         !.repeat = DeletedBefore(k, id),
                                         !.here = IsAttached(vectorStoreId[k], id),
                                         !.elsewhere = AttachedElsewhere(k, id),
                                         !.stored = id \in storage],
                             Call("vectorStores.files.del", vectorStoreId[k], id),
                             "detach")]
    /\ started' = started + 1
    /\ UNCHANGED <<env, vectorStoreId, remote>>

\* openai.vectorStores.files.del answered.
DeleteDetached(r, res) ==
    /\ req[r].pc = "detach"
    /\ res \in DetachAnswers(req[r].vs, req[r].fileId)
    /\ attached' = Detached(req[r].vs, req[r].fileId, res)
    /\ req' = [req EXCEPT ![r] =
          IF DetachFatal(res)
          THEN Respond([@ EXCEPT !.detachRes = res], 500)
          ELSE Issue([@ EXCEPT !.detachRes = res],
                     Call("files.del", NULL, req[r].fileId), "file_del")]
    /\ UNCHANGED <<env, vectorStoreId, stores, storage, nfiles, started>>

\* openai.files.del answered.
DeleteFileDeleted(r, res) ==
    /\ req[r].pc = "file_del"
    /\ res \in FileDelAnswers(req[r].fileId)
    /\ storage' = FileDeleted(req[r].fileId, res)
    /\ req' = [req EXCEPT ![r] =
          Respond([@ EXCEPT !.delRes = res], IF FileDelFatal(res) THEN 500 ELSE 200)]
    /\ UNCHANGED <<env, vectorStoreId, stores, nfiles, attached, started>>

\* ------------------------------------------------------ the query endpoints
\* `ids.includes(id)`
Includes(ids, id) == \E i \in 1..Len(ids) : ids[i] = id

\* A selection that returns every id it collected.
SliceAll(ids) == ids

\* `ids.slice(0, 2)`
Slice(ids) == SubSeq(ids, 1, IF Len(ids) < 2 THEN Len(ids) ELSE 2)

\* A loop that pushes an id again when it is already in the list.
PushNewAgain(ids, id) == IF id # NULL THEN Append(ids, id) ELSE ids

\* `if (collection.vectorStoreId && !ids.includes(...)) ids.push(...)`
PushNew(ids, id) ==
    IF id # NULL /\ ~Includes(ids, id) THEN Append(ids, id) ELSE ids

\* `for (const ... of keys)` around that push, over the registry as it is.
RECURSIVE Collect(_, _)
Collect(keys, ids) ==
    IF keys = <<>> THEN ids
    ELSE Collect(Tail(keys), PushNew(ids, vectorStoreId[Head(keys)]))

\* `if (ids.length < 2 && VECTOR_STORE_ID_n && !ids.includes(VECTOR_STORE_ID_n))`
PadLegacy(ids, id) ==
    IF Len(ids) < 2 /\ id # NULL /\ ~Includes(ids, id) THEN Append(ids, id) ELSE ids

getActiveVectorStoreIds ==
    Slice(PadLegacy(PadLegacy(Collect(COLLECTION_LIST, <<>>), env["primary"]),
                    env["secondary"]))

\* The registry's own order in place of the priority order.
priorityRegistryOrder == <<"primary", "secondary", "training">>

\* `const priority = ['training', 'secondary', 'primary'];`
priority == <<"training", "secondary", "primary">>

getTrainingVectorStoreIds == Slice(Collect(priority, <<>>))

\* A request built with `tools` whatever was selected.
WithToolsAlways(ids) == TRUE

\* `...(vectorStoreIds.length ? { tools: [...] } : {})`
WithTools(ids) == Len(ids) > 0

\* `if (!message || typeof message !== 'string')`, and
\* `if (!jobDescription || !candidateInfo)`.
BodyComplete(b) == b = "complete"

\* The handler up to `await openai.responses.create(...)`.
Ask(rec, ids, other, tool) ==
    Issue([rec EXCEPT !.ids = ids, !.other = other, !.reg = vectorStoreId,
                      !.sent = TRUE, !.tool = tool,
                      !.toolIds = IF tool THEN ids ELSE <<>>],
          Call("responses.create", NULL, 0), "ask")

\* --- extractResponseText
\* `.trim()`: the string without its leading and trailing white space.
RECURSIVE TrimStart(_)
TrimStart(s) == IF s # <<>> /\ Head(s) = " " THEN TrimStart(Tail(s)) ELSE s

RECURSIVE TrimEnd(_)
TrimEnd(s) ==
    IF s # <<>> /\ s[Len(s)] = " " THEN TrimEnd(SubSeq(s, 1, Len(s) - 1)) ELSE s

Trim(s) == TrimEnd(TrimStart(s))

\* `typeof v === 'string' && v.trim()`, as the trimmed string or <<>>.
StringText(v) == IF v.t = "string" THEN Trim(v.s) ELSE <<>>

\* `v && typeof v.value === 'string' && v.value.trim()`, likewise.
ValueText(v) == IF v.t = "value" THEN Trim(v.s) ELSE <<>>

\* An `output_text` item: item.text, or else item.text.value.
DirectText(item) ==
    IF item.type # "output_text" THEN <<>>
    ELSE IF StringText(item.text) # <<>> THEN StringText(item.text)
    ELSE ValueText(item.text)

\* `content.text?.value ?? content.text` of an `output_text` content entry,
\* when it is a string that is not blank.
ContentText(content) ==
    IF content.type # "output_text" THEN <<>>
    ELSE IF content.text.t = "value" THEN Trim(content.text.s)
    ELSE StringText(content.text)

\* A `message` item: the first content entry that yields text.
RECURSIVE FirstContentText(_)
FirstContentText(contents) ==
    IF contents = <<>> THEN <<>>
    ELSE IF ContentText(Head(contents)) # <<>> THEN ContentText(Head(contents))
    ELSE FirstContentText(Tail(contents))

MessageText(item) ==
    IF item.type # "message" THEN <<>> ELSE FirstContentText(item.content)

\* One round of `for (const item of outputs)`: both `if`s of the body.
ItemText(item) ==
    IF DirectText(item) # <<>> THEN DirectText(item) ELSE MessageText(item)

\* Two loops in place of one: every item's direct text is tried before any
\* message item is looked at.
RECURSIVE FirstDirectText(_)
FirstDirectText(outputs) ==
    IF outputs = <<>> THEN <<>>
    ELSE IF DirectText(Head(outputs)) # <<>> THEN DirectText(Head(outputs))
    ELSE FirstDirectText(Tail(outputs))

RECURSIVE FirstMessageText(_)
FirstMessageText(outputs) ==
    IF outputs = <<>> THEN <<>>
    ELSE IF MessageText(Head(outputs)) # <<>> THEN MessageText(Head(outputs))
    ELSE FirstMessageText(Tail(outputs))

ScanOutputsTwoStage(outputs) ==
    IF FirstDirectText(outputs) # <<>> THEN FirstDirectText(outputs)
    ELSE FirstMessageText(outputs)

\* The loop: the first item that yields text returns it.
RECURSIVE ScanOutputs(_)
ScanOutputs(outputs) ==
    IF outputs = <<>> THEN <<>>
    ELSE IF ItemText(Head(outputs)) # <<>> THEN ItemText(Head(outputs))
    ELSE ScanOutputs(Tail(outputs))

Return(text) == [ok |-> TRUE, text |-> text, error |-> "none"]
Throw(message) == [ok |-> FALSE, text |-> <<>>, error |-> message]

\* An extractor that returns the top-level text as it is.
TopTextUntrimmed(response) == IF response.output_text.t = "string" THEN response.output_text.s ELSE <<>>

\* `typeof response.output_text === 'string' && response.output_text.trim()`
TopText(response) == StringText(response.output_text)

extractResponseText(response) ==
    IF ~response.present THEN Throw("Empty response from OpenAI")
    ELSE IF TopText(response) # <<>> THEN Return(TopText(response))
    ELSE IF ScanOutputs(response.output) # <<>>
         THEN Return(ScanOutputs(response.output))
         ELSE Throw("No text output returned from OpenAI response")

\* --- the reply of the recommendation endpoints
\* `text.match(/\{[\s\S]*\}/)`: from the first "{" to the last "}" behind it,
\* <<>> when there is no such span.
JsonMatch(text) ==
    LET opens == {i \in 1..Len(text) : text[i] = "{"}
        first == CHOOSE i \in opens : \A j \in opens : i <= j
        closes == {i \in 1..Len(text) : text[i] = "}" /\ i > first}
        last == CHOOSE i \in closes : \A j \in closes : i >= j
    IN  IF opens = {} THEN <<>>
        ELSE IF closes = {} THEN <<>>
        ELSE SubSeq(text, first, last)

\* Whether JSON.parse accepts the span.  A text is a sequence of tokens: the
\* braces, "m" for a well-formed member ("recommendations": [...]), "x" for
\* anything else, " " for white space, which JSON allows between tokens.
JsonParses(span) ==
    LET tokens == SelectSeq(span, LAMBDA c : c # " ")
    IN  tokens \in {<<"{", "}">>, <<"{", "m", "}">>}

\* What a handler's `catch` answers: 500.
Failed(rec, res, message) ==
    Respond([rec EXCEPT !.upRes = res, !.error = message, !.reply = "error"], 500)

\* `res.json(...)` after extractResponseText returned.
Answered(rec, resp, text, reply) ==
    Respond([rec EXCEPT !.upRes = "ok", !.resp = resp, !.text = text,
                        !.reply = reply], 200)

\* --- POST /chatbot
ChatStart(r, b) ==
    /\ CanStart(r)
    /\ LET rec == [BlankReq EXCEPT !.op = "chat", !.body = b]
           ids == getActiveVectorStoreIds
       IN  req' = [req EXCEPT ![r] =
             IF ~BodyComplete(b) THEN Respond([rec EXCEPT !.reply = "error"], 400)
             ELSE Ask(rec, ids, getTrainingVectorStoreIds, WithTools(ids))]
    /\ started' = started + 1
    /\ UNCHANGED <<env, vectorStoreId, remote>>

\* openai.responses.create answered: extractResponseText, then the answer.
ChatAnswered(r, res, resp) ==
    /\ req[r].op = "chat" /\ req[r].pc = "ask"
    /\ res = "err" => resp = NoResponse
    /\ LET x == extractResponseText(resp)
       IN  req' = [req EXCEPT ![r] =
             IF res # "ok" THEN Failed(@, res, "upstream")
             ELSE IF ~x.ok THEN Failed([@ EXCEPT !.resp = resp], res, x.error)
             ELSE Answered(@, resp, x.text, "text")]
    /\ UNCHANGED <<env, vectorStoreId, remote, started>>

\* --- POST /training/from-file and /training/ai-generate
\* `if (jsonMatch) { res.json(JSON.parse(jsonMatch[0])) } else
\* { res.json({ recommendations: [] }) }` inside the handler's try.
Recommend(rec, res, resp) ==
    LET x == extractResponseText(resp)
    IN  IF res # "ok" THEN Failed(rec, res, "upstream")
        ELSE IF ~x.ok THEN Failed([rec EXCEPT !.resp = resp], res, x.error)
        ELSE IF JsonMatch(x.text) = <<>> THEN Answered(rec, resp, x.text, "empty")
        ELSE IF JsonParses(JsonMatch(x.text)) THEN Answered(rec, resp, x.text, "parsed")
        ELSE Failed([rec EXCEPT !.resp = resp, !.text = x.text], res, "JSON.parse")

\* `if (!trainingCollection.vectorStoreId)`, negated.
TrainingProvisioned == vectorStoreId["training"] # NULL

FromFileStart(r, b) ==
    /\ CanStart(r)
    /\ LET rec == [BlankReq EXCEPT !.op = "from-file", !.body = b]
       IN  req' = [req EXCEPT ![r] =
             IF ~BodyComplete(b) THEN Respond([rec EXCEPT !.reply = "error"], 400)
             ELSE IF ~TrainingProvisioned
                  THEN Respond([rec EXCEPT !.reply = "error",
                                           !.error = "No training file uploaded"], 400)
                  ELSE Ask(rec, getTrainingVectorStoreIds, getActiveVectorStoreIds, TRUE)]
    /\ started' = started + 1
    /\ UNCHANGED <<env, vectorStoreId, remote>>

FromFileAnswered(r, res, resp) ==
    /\ req[r].op = "from-file" /\ req[r].pc = "ask"
    /\ res = "err" => resp = NoResponse
    /\ req' = [req EXCEPT ![r] = Recommend(@, res, resp)]
    /\ UNCHANGED <<env, vectorStoreId, remote, started>>

AiGenerateStart(r, b) ==
    /\ CanStart(r)
    /\ LET rec == [BlankReq EXCEPT !.op = "ai-generate", !.body = b]
           ids == getActiveVectorStoreIds
       IN  req' = [req EXCEPT ![r] =
             IF ~BodyComplete(b) THEN Respond([rec EXCEPT !.reply = "error"], 400)
             ELSE Ask(rec, ids, getTrainingVectorStoreIds, WithTools(ids))]
    /\ started' = started + 1
    /\ UNCHANGED <<env, vectorStoreId, remote>>

AiGenerateAnswered(r, res, resp) ==
    /\ req[r].op = "ai-generate" /\ req[r].pc = "ask"
    /\ res = "err" => resp = NoResponse
    /\ req' = [req EXCEPT ![r] = Recommend(@, res, resp)]
    /\ UNCHANGED <<env, vectorStoreId, remote, started>>

\* ------------------------------------------------- the service's own moves
\* The service finishes processing an attachment.
Processed(a, s) ==
    /\ a \in attached
    /\ a.status = "in_progress"
    /\ s \in Statuses \ {"in_progress"}
    /\ attached' = (attached \ {a}) \cup {[a EXCEPT !.status = s]}
    /\ UNCHANGED <<env, vectorStoreId, stores, storage, nfiles, req, started>>

\* A storage record is deleted by someone else (the join then fails).
StorageLost(id) ==
    /\ id \in storage
    /\ storage' = storage \ {id}
    /\ UNCHANGED <<env, vectorStoreId, stores, nfiles, attached, req, started>>

\* ------------------------------------------------------------ specification
\* The pinned store's content when the process starts: files 1..n, each with
\* any status, a created_at of `times`, and its storage record there or not.
SeededFiles(vs, shape) ==
    {[vs |-> vs, id |-> i, status |-> shape[i][1], created_at |-> shape[i][2]] :
        i \in DOMAIN shape}

Boot(configs, maxn, times) ==
    /\ env \in configs
    /\ vectorStoreId =
          [k \in FILE_COLLECTIONS \cup InheritedKeys |->
              IF k \in FILE_COLLECTIONS THEN createCollection(env[k]) ELSE NULL]
    /\ stores = <<>>
    /\ \E n \in 0..maxn :
         /\ env["primary"] = NULL => n = 0
         /\ nfiles = n
         /\ storage \in SUBSET (1..n)
         /\ \E shape \in [1..n -> Statuses \X times] :
               attached = SeededFiles(env["primary"], shape)
    /\ req = [r \in Reqs |-> BlankReq]
    /\ started = 0

Init == Boot(EnvConfigs, MaxSeeded, {1})

Next ==
    \/ \E r \in Reqs, k \in RequestKeys, f \in Payloads : UploadStart(r, k, f)
    \/ \E r \in Reqs, res \in {"ok", "err"} : UploadStoreCreated(r, res)
    \/ \E r \in Reqs, res \in {"ok", "err"} : UploadFileCreated(r, res)
    \/ \E r \in Reqs, res \in {"ok", "404", "err"} : UploadAttached(r, res)
    \/ \E r \in Reqs, res \in {"ok", "404", "err"} : UploadBuilt(r, res)
    \/ \E r \in Reqs, res \in {"ok", "404", "err"} : UploadPruned(r, res)
    \/ \E r \in Reqs, k \in RequestKeys : ListStart(r, k)
    \/ \E r \in Reqs, res \in {"ok", "err"} : ListFetched(r, res)
    \/ \E r \in Reqs, i \in 1..nfiles, res \in {"ok", "404", "err"} :
          ListRetrieved(r, i, res)
    \/ \E r \in Reqs, i \in 1..nfiles, res \in {"ok", "404", "err"} :
          ListPruned(r, i, res)
    \/ \E r \in Reqs, k \in RequestKeys, id \in FileIds : DeleteStart(r, k, id)
    \/ \E r \in Reqs, res \in {"ok", "404", "err"} : DeleteDetached(r, res)
    \/ \E r \in Reqs, res \in {"ok", "404", "err"} : DeleteFileDeleted(r, res)
    \/ \E a \in attached, s \in Statuses : Processed(a, s)

\* Requests of every kind, handled concurrently.  A storage record goes
\* through a DELETE request, or is gone when the process starts.
Spec == Init /\ [][Next]_vars

\* No request is being handled.
Quiet == \A r \in Reqs : req[r].pc \in {"idle", "done"}

\* Requests handled one after the other: a request is received only when
\* every earlier one has been answered.  Storage records may vanish at any
\* time, deleted by someone else.
SeqNext ==
    \/ \E r \in Reqs, k \in RequestKeys, f \in Payloads : Quiet /\ UploadStart(r, k, f)
    \/ \E r \in Reqs, res \in {"ok", "err"} : UploadStoreCreated(r, res)
    \/ \E r \in Reqs, res \in {"ok", "err"} : UploadFileCreated(r, res)
    \/ \E r \in Reqs, res \in {"ok", "404", "err"} : UploadAttached(r, res)
    \/ \E r \in Reqs, res \in {"ok", "404", "err"} : UploadBuilt(r, res)
    \/ \E r \in Reqs, res \in {"ok", "404", "err"} : UploadPruned(r, res)
    \/ \E r \in Reqs, k \in RequestKeys : Quiet /\ ListStart(r, k)
    \/ \E r \in Reqs, res \in {"ok", "err"} : ListFetched(r, res)
    \/ \E r \in Reqs, i \in 1..nfiles, res \in {"ok", "404", "err"} :
          ListRetrieved(r, i, res)
    \/ \E r \in Reqs, i \in 1..nfiles, res \in {"ok", "404", "err"} :
          ListPruned(r, i, res)
    \/ \E r \in Reqs, k \in RequestKeys, id \in FileIds : Quiet /\ DeleteStart(r, k, id)
    \/ \E r \in Reqs, res \in {"ok", "404", "err"} : DeleteDetached(r, res)
    \/ \E r \in Reqs, res \in {"ok", "404", "err"} : DeleteFileDeleted(r, res)
    \/ \E a \in attached, s \in Statuses : Processed(a, s)
    \/ \E id \in storage : StorageLost(id)

SeqSpec == Init /\ [][SeqNext]_vars

\* Listings only, one after the other, of a pinned store that holds up to
\* MaxListed files with any created_at, a missing one included.
ListInit ==
    Boot({[primary |-> 1, secondary |-> NULL, training |-> NULL]},
         MaxListed, {NoTime} \cup (1..MaxTime))

ListNext ==
    \/ \E r \in Reqs : Quiet /\ ListStart(r, "primary")
    \/ \E r \in Reqs, res \in {"ok", "err"} : ListFetched(r, res)
    \/ \E r \in Reqs, i \in 1..nfiles, res \in {"ok", "404", "err"} :
          ListRetrieved(r, i, res)
    \/ \E r \in Reqs, i \in 1..nfiles, res \in {"ok", "404", "err"} :
          ListPruned(r, i, res)

ListSpec == ListInit /\ [][ListNext]_vars

\* --- two pinned collections
\* Primary and secondary are pinned to two stores; the first holds the files.
CrossInit == Boot({[primary |-> 1, secondary |-> 2, training |-> NULL]}, MaxSeeded, {1})

\* DELETEs and listings of the two collections, handled concurrently.
CrossNext ==
    \/ \E r \in Reqs, k \in {"primary", "secondary"}, id \in FileIds : DeleteStart(r, k, id)
    \/ \E r \in Reqs, res \in {"ok", "404", "err"} : DeleteDetached(r, res)
    \/ \E r \in Reqs, res \in {"ok", "404", "err"} : DeleteFileDeleted(r, res)
    \/ \E r \in Reqs, k \in {"primary", "secondary"} : ListStart(r, k)
    \/ \E r \in Reqs, res \in {"ok", "err"} : ListFetched(r, res)
    \/ \E r \in Reqs, i \in 1..nfiles, res \in {"ok", "404", "err"} :
          ListRetrieved(r, i, res)
    \/ \E r \in Reqs, i \in 1..nfiles, res \in {"ok", "404", "err"} :
          ListPruned(r, i, res)
    \/ \E a \in attached, s \in Statuses : Processed(a, s)

CrossSpec == CrossInit /\ [][CrossNext]_vars

\* --- the query endpoints over every registry
\* Every way the operator may pin the three collections, the same id pinned
\* twice included.
QueryConfigs == [FILE_COLLECTIONS -> {NULL} \cup PinnedIds]

\* The request bodies: a required property missing, or all of them there.
Bodies == {"missing", "complete"}

\* Characters of the texts of a response.
Text(s) == [t |-> "string", s |-> s]

\* A response that carries only the top-level text.
TopOnly(s) == [present |-> TRUE, output_text |-> Text(s), output |-> <<>>]

\* The responses a query gets here: none, one without text, prose, a JSON
\* object, a brace-delimited span that is no JSON.
QueryResponses ==
    { NoResponse, TopOnly(<<" ">>), TopOnly(<<"x", " ">>),
      TopOnly(<<"{", "m", "}">>), TopOnly(<<"{", "x", "}">>) }

QueryInit == Boot(QueryConfigs, 0, {1})

\* Uploads provision the collections while the three query endpoints are
\* called.  No storage record is deleted here, so no upload meets a 404.
QueryNext ==
    \/ \E r \in Reqs, k \in FILE_COLLECTIONS : UploadStart(r, k, "data")
    \/ \E r \in Reqs, res \in {"ok", "err"} : UploadStoreCreated(r, res)
    \/ \E r \in Reqs, res \in {"ok", "err"} : UploadFileCreated(r, res)
    \/ \E r \in Reqs, res \in {"ok", "err"} : UploadAttached(r, res)
    \/ \E r \in Reqs, res \in {"ok", "err"} : UploadBuilt(r, res)
    \/ \E r \in Reqs, b \in Bodies : ChatStart(r, b)
    \/ \E r \in Reqs, res \in {"ok", "err"}, resp \in QueryResponses :
          ChatAnswered(r, res, resp)
    \/ \E r \in Reqs, b \in Bodies : FromFileStart(r, b)
    \/ \E r \in Reqs, res \in {"ok", "err"}, resp \in QueryResponses :
          FromFileAnswered(r, res, resp)
    \/ \E r \in Reqs, b \in Bodies : AiGenerateStart(r, b)
    \/ \E r \in Reqs, res \in {"ok", "err"}, resp \in QueryResponses :
          AiGenerateAnswered(r, res, resp)

QuerySpec == QueryInit /\ [][QueryNext]_vars

\* --- every route at once
\* The keys of the file routes, an inherited property name among them.
FrameKeys == RequestKeys \cup InheritedKeys

\* The environments: nothing pinned, primary pinned, training pinned.
FrameConfigs ==
    EnvConfigs \cup {[primary |-> NULL, secondary |-> NULL, training |-> 2]}

FrameInit == Boot(FrameConfigs, MaxSeeded, {1})

\* File requests and queries, handled concurrently.
FrameNext ==
    \/ \E r \in Reqs, k \in FrameKeys, f \in Payloads : UploadStart(r, k, f)
    \/ \E r \in Reqs, res \in {"ok", "err"} : UploadStoreCreated(r, res)
    \/ \E r \in Reqs, res \in {"ok", "err"} : UploadFileCreated(r, res)
    \/ \E r \in Reqs, res \in {"ok", "404", "err"} : UploadAttached(r, res)
    \/ \E r \in Reqs, res \in {"ok", "404", "err"} : UploadBuilt(r, res)
    \/ \E r \in Reqs, res \in {"ok", "404", "err"} : UploadPruned(r, res)
    \/ \E r \in Reqs, k \in FrameKeys : ListStart(r, k)
    \/ \E r \in Reqs, res \in {"ok", "err"} : ListFetched(r, res)
    \/ \E r \in Reqs, i \in 1..nfiles, res \in {"ok", "404", "err"} :
          ListRetrieved(r, i, res)
    \/ \E r \in Reqs, i \in 1..nfiles, res \in {"ok", "404", "err"} :
          ListPruned(r, i, res)
    \/ \E r \in Reqs, k \in FrameKeys, id \in FileIds : DeleteStart(r, k, id)
    \/ \E r \in Reqs, res \in {"ok", "404", "err"} : DeleteDetached(r, res)
    \/ \E r \in Reqs, res \in {"ok", "404", "err"} : DeleteFileDeleted(r, res)
    \/ \E r \in Reqs : ChatStart(r, "complete")
    \/ \E r \in Reqs, res \in {"ok", "err"}, resp \in QueryResponses :
          ChatAnswered(r, res, resp)
    \/ \E r \in Reqs : FromFileStart(r, "complete")
    \/ \E r \in Reqs, res \in {"ok", "err"}, resp \in QueryResponses :
          FromFileAnswered(r, res, resp)
    \/ \E r \in Reqs : AiGenerateStart(r, "complete")
    \/ \E r \in Reqs, res \in {"ok", "err"}, resp \in QueryResponses :
          AiGenerateAnswered(r, res, resp)
    \/ \E a \in attached, s \in Statuses : Processed(a, s)

FrameSpec == FrameInit /\ [][FrameNext]_vars

\* ------------------------------------------------------------------ claims
CreateCall == Call("vectorStores.create", NULL, 0)
DetachCall(vs, id) == Call("vectorStores.files.del", vs, id)
FileDelCall(id) == Call("files.del", NULL, id)
OutIds(rec) == {rec.out[i].id : i \in 1..Len(rec.out)}

\* The stores this process created, by id, and those among them the registry
\* no longer names (each was written to the registry when it was created).
CreatedIds == {Cardinality(PinnedIds) + i : i \in DOMAIN stores}
OwnerOf(id) == stores[id - Cardinality(PinnedIds)]
Leaked == {id \in CreatedIds : vectorStoreId[OwnerOf(id)] # id}

\* C1 (requests one after the other): an ensureVectorStoreForCollection call
\* that starts after another one on the same collection has returned issues
\* no vectorStores.create and returns the id the earlier call returned, so
\* the two calls issue at most one create; and a call that finds the
\* vectorStoreId set (seeded from the environment or not) returns it without
\* a create.
C1_EnsureIdempotent ==
    \A r \in Reqs : req[r].op = "upload" =>
        /\ \A q \in req[r].prior :
              /\ CreateCall \notin req[r].calls
              /\ req[r].ensured
              /\ req[r].vs = req[q].vs
        /\ req[r].startReg # NULL =>
              /\ CreateCall \notin req[r].calls
              /\ req[r].ensured
              /\ req[r].vs = req[r].startReg

\* C1's case: an upload was answered 201 whose ensure call came after the
\* call of an earlier upload had created the collection's store.
C1_Witness ==
    \E r \in Reqs : \E q \in req[r].prior :
        /\ CreateCall \in req[q].calls
        /\ req[r].pc = "done" /\ req[r].status = 201

\* C2 as stated: no collection ever has more than one store created for it.
C2_AtMostOneStorePerCollection ==
    \A k \in FILE_COLLECTIONS : Cardinality({i \in DOMAIN stores : stores[i] = k}) <= 1

\* C3 as stated: a vectorStoreId that is set is never given another value.
C3_IndexIdSetOnce ==
    [][\A k \in FILE_COLLECTIONS :
          vectorStoreId[k] # NULL => vectorStoreId'[k] = vectorStoreId[k]]_vars

\* C4 as stated: once the registry has dropped a store this process created,
\* no request issues a remote call that names that store.
C4_LeakedNeverReferenced ==
    [][\A r \in Reqs : \A c \in req'[r].calls \ req[r].calls : c.vs \notin Leaked]_vars

\* C5: the step in which vectorStores.create fails leaves every vectorStoreId
\* as it was and answers the upload 500; an upload whose create failed has
\* issued no other call; and an upload that is received after such a failure
\* and finds the vectorStoreId still null issues a create of its own.
C5_CreateFailure ==
    [][/\ \A r \in Reqs : req[r].pc = "vs_create" /\ req'[r].vsRes = "err" =>
             /\ vectorStoreId' = vectorStoreId
             /\ req'[r].pc = "done"
       /\ \A r \in Reqs : req'[r].vsRes = "err" =>
             /\ req'[r].status = 500
             /\ req'[r].calls = {CreateCall}
       /\ \A r \in Reqs : req'[r].retry /\ req'[r].startReg = NULL =>
             CreateCall \in req'[r].calls]_vars

\* C5's case: a create failed, the upload was answered 500, and a later
\* upload to the same collection created the store.
C5_Witness ==
    \E r \in Reqs :
        /\ req[r].retry /\ req[r].startReg = NULL
        /\ req[r].vsRes = "ok" /\ req[r].vs = vectorStoreId[req[r].key]

\* C6 as stated: a DELETE that repeats an answered DELETE of the same file on
\* a provisioned collection is never answered with an error.
C6_SecondDeleteNeverErrors ==
    \A r \in Reqs :
        req[r].op = "delete" /\ req[r].repeat /\ req[r].startReg # NULL
            /\ req[r].pc = "done" => req[r].status = 200

\* C6 as amended: such a DELETE is answered 200 whenever its detach call
\* answers success or 404, whatever files.del answers; it is answered with an
\* error (500) only when its own detach call fails with another status.
C6_SecondDeleteErrorsOnlyOnDetachFailure ==
    \A r \in Reqs :
        req[r].op = "delete" /\ req[r].repeat /\ req[r].startReg # NULL
            /\ req[r].pc = "done" =>
                /\ req[r].detachRes \in {"ok", "404"} => req[r].status = 200
                /\ req[r].status # 200 => req[r].status = 500 /\ req[r].detachRes = "err"

\* C6's case: the first DELETE detached the file and deleted its storage
\* record; the second got 404 from both calls and was answered 200.
C6_Witness ==
    \E r, q \in Reqs :
        /\ req[q].op = "delete" /\ req[q].detachRes = "ok" /\ req[q].delRes = "ok"
        /\ req[r].op = "delete" /\ req[r].repeat /\ req[r].key = req[q].key
        /\ req[r].fileId = req[q].fileId
        /\ req[r].detachRes = "404" /\ req[r].delRes = "404"
        /\ req[r].pc = "done" /\ req[r].status = 200

\* C7: a DELETE on a provisioned collection is answered 500 exactly when its
\* detach call failed with a status other than 404, and 200 otherwise; after
\* a 404 from the detach files.del is still issued; and no answer of
\* files.del (404 or another failure) makes the DELETE fail.
C7_DeleteClassification ==
    \A r \in Reqs : req[r].op = "delete" /\ req[r].startReg # NULL =>
        /\ req[r].detachRes \in {"ok", "404"} => FileDelCall(req[r].fileId) \in req[r].calls
        /\ req[r].detachRes = "err" => FileDelCall(req[r].fileId) \notin req[r].calls
        /\ req[r].pc = "done" =>
              /\ req[r].status = 500 <=> req[r].detachRes = "err"
              /\ req[r].status = 200 <=> req[r].detachRes \in {"ok", "404"}
              /\ req[r].delRes # "none" => req[r].status = 200

\* C7's case: the detach answered 404, files.del failed with another status,
\* and the DELETE was answered 200.
C7_Witness ==
    \E r \in Reqs :
        /\ req[r].op = "delete" /\ req[r].pc = "done"
        /\ req[r].detachRes = "404" /\ req[r].delRes = "err" /\ req[r].status = 200

\* C8 as stated: a listing that succeeds returns no file that was attached to
\* the listed store without a storage record, and has issued a detach of each
\* such file from that store.
C8_EveryOrphanPruned ==
    \A r \in Reqs : req[r].op = "list" /\ req[r].pc = "done" /\ req[r].status = 200 =>
        \A id \in req[r].orphans :
            /\ id \notin OutIds(req[r])
            /\ DetachCall(req[r].startReg, id) \in req[r].calls

\* C8 as amended: for every listed file with status completed whose
\* files.retrieve answers 404, the listing issues a detach of the file from
\* the store the registry names when the listing arrives and does not return
\* the file; every other completed file is returned and no detach is issued
\* for it, nor for a listed file whose status is not completed; and once the
\* listing has arrived nothing makes the request fail, a failed detach
\* included.
C8_CompletedOrphansPruned ==
    \A r \in Reqs : req[r].op = "list" =>
        /\ \A i \in 1..Len(req[r].listed) :
              req[r].listed[i].status # "completed" =>
                  DetachCall(req[r].vs, req[r].listed[i].id) \notin req[r].calls
        /\ \A i \in 1..Len(req[r].files) :
              LET id == req[r].files[i].id IN
              /\ req[r].fres[i] = "404" => DetachCall(req[r].vs, id) \in req[r].calls
              /\ req[r].fres[i] # "404" => DetachCall(req[r].vs, id) \notin req[r].calls
              /\ req[r].pc = "done" =>
                    (id \in OutIds(req[r]) <=> req[r].fres[i] \in {"ok", "err"})
        /\ req[r].pc = "done" /\ req[r].status # 200 =>
              /\ req[r].files = <<>>
              /\ \A c \in req[r].calls : c.api = "vectorStores.files.list"

\* C8's case: a listing met a completed orphan, its detach failed, and the
\* listing was answered 200 without the file.
C8_Witness ==
    \E r \in Reqs :
        /\ req[r].op = "list" /\ req[r].pc = "done" /\ req[r].status = 200
        /\ \E i \in 1..Len(req[r].files) :
              /\ req[r].files[i].id \in req[r].orphans
              /\ req[r].fres[i] = "404" /\ req[r].fstate[i] = "unpruned"
              /\ req[r].files[i].id \notin OutIds(req[r])

\* C9: every entry a listing returns has status completed, and no listed file
\* whose status is in_progress, failed or cancelled is returned.
C9_OnlyCompletedListed ==
    \A r \in Reqs : req[r].op = "list" =>
        /\ \A i \in 1..Len(req[r].out) : req[r].out[i].status = "completed"
        /\ \A i \in 1..Len(req[r].listed) :
              req[r].listed[i].status # "completed" =>
                  req[r].listed[i].id \notin OutIds(req[r])

\* C9's case: a listing returned a file while the store also held a file
\* that was still in progress.
C9_Witness ==
    \E r \in Reqs :
        /\ req[r].op = "list" /\ req[r].pc = "done" /\ req[r].out # <<>>
        /\ \E i \in 1..Len(req[r].listed) : req[r].listed[i].status = "in_progress"

\* created_at, a missing one counted as 0.
CreatedAtOrZero(p) == IF p.created_at = NoTime THEN 0 ELSE p.created_at

\* C10: the entries a listing returns are in descending order of created_at,
\* a missing created_at counted as 0, and they are the entries that were kept.
C10_SortedDescending ==
    \A r \in Reqs : req[r].op = "list" /\ req[r].pc = "done" =>
        /\ \A i \in 1..(Len(req[r].out) - 1) :
              CreatedAtOrZero(req[r].out[i]) >= CreatedAtOrZero(req[r].out[i + 1])
        /\ Len(req[r].out) =
              Cardinality({i \in 1..Len(req[r].files) : req[r].fstate[i] \in {"kept", "bare"}})
        /\ OutIds(req[r]) =
              {req[r].files[i].id : i \in {j \in 1..Len(req[r].files) :
                                              req[r].fstate[j] \in {"kept", "bare"}}}

\* C10's case: files listed with created_at missing, 2, 1 (lowest, highest,
\* middle) were returned in the order 2, 1, missing.
C10_Witness ==
    \E r \in Reqs :
        /\ req[r].op = "list" /\ req[r].pc = "done"
        /\ [i \in 1..Len(req[r].files) |-> req[r].files[i].created_at] = <<NoTime, 2, 1>>
        /\ [i \in 1..Len(req[r].out) |-> req[r].out[i].created_at] = <<2, 1, NoTime>>

\* --- one query and every shape of response
\* Sequences over S of length up to n.
SeqsUpTo(S, n) == UNION {[1..m -> S] : m \in 0..n}

\* The strings of a response: empty, blank, and two with white space around.
ResponseTexts == {<<>>, <<" ">>, <<"a", " ">>, <<" ", "b">>}

\* What stands where a text is expected.
TextVals ==
    {Undefined, [t |-> "object", s |-> <<>>]}
        \cup {[t |-> k, s |-> x] : k \in {"string", "value"}, x \in ResponseTexts}

\* The content entries of a message item.
ContentEntries ==
    {[type |-> "other", text |-> Undefined]}
        \cup {[type |-> "output_text", text |-> v] : v \in TextVals}

\* The output items: text items, message items, items of another type.
Items ==
    {[type |-> "output_text", text |-> v, content |-> <<>>] : v \in TextVals}
        \cup {[type |-> "message", text |-> Undefined, content |-> c] :
                 c \in SeqsUpTo(ContentEntries, MaxContent)}
        \cup {[type |-> "other", text |-> Undefined, content |-> <<>>]}

\* response.output_text: missing, no string, or a string.
TopTexts ==
    {Undefined, [t |-> "object", s |-> <<>>]} \cup {Text(x) : x \in ResponseTexts}

\* A response.output that is no array is read as [].
Responses ==
    {NoResponse}
        \cup {[present |-> TRUE, output_text |-> t, output |-> o] :
                 t \in TopTexts, o \in SeqsUpTo(Items, MaxItems)}

\* Replies to a recommendation prompt: token sequences as top-level text.
JsonReplies == {TopOnly(x) : x \in SeqsUpTo({"{", "}", "m", "x", " "}, MaxReply)}

ReplyInit == Boot({[primary |-> NULL, secondary |-> 1, training |-> 2]}, 0, {1})

\* One request to a query endpoint, answered with any of these responses.
ReplyNext ==
    \/ \E r \in Reqs, b \in Bodies : started = 0 /\ ChatStart(r, b)
    \/ \E r \in Reqs : req[r].pc = "ask" /\
          \E res \in {"ok", "err"}, resp \in Responses \cup JsonReplies :
              ChatAnswered(r, res, resp)
    \/ \E r \in Reqs, b \in Bodies : started = 0 /\ FromFileStart(r, b)
    \/ \E r \in Reqs : req[r].pc = "ask" /\
          \E res \in {"ok", "err"}, resp \in Responses \cup JsonReplies :
              FromFileAnswered(r, res, resp)
    \/ \E r \in Reqs, b \in Bodies : started = 0 /\ AiGenerateStart(r, b)
    \/ \E r \in Reqs : req[r].pc = "ask" /\
          \E res \in {"ok", "err"}, resp \in Responses \cup JsonReplies :
              AiGenerateAnswered(r, res, resp)

ReplySpec == ReplyInit /\ [][ReplyNext]_vars

\* ------------------------------------------------ claims on the query paths
IsQuery(rec) == rec.op \in {"chat", "from-file", "ai-generate"}
Range(s) == {s[i] : i \in DOMAIN s}
NoDuplicates(s) == \A i, j \in DOMAIN s : s[i] = s[j] => i = j
AllProvisioned(reg) == \A k \in FILE_COLLECTIONS : reg[k] # NULL
AllDistinct(reg) ==
    AllProvisioned(reg) /\ Cardinality({reg[k] : k \in FILE_COLLECTIONS}) = 3

\* C11: whatever the registry and the pinned ids, the ids a query endpoint
\* selects, and the vector_store_ids of the tool it sends upstream, are at
\* most 2, for /chatbot, /training/from-file and /training/ai-generate.
C11_IndexIdCap ==
    \A r \in Reqs : IsQuery(req[r]) =>
        Len(req[r].ids) <= 2 /\ Len(req[r].toolIds) <= 2

\* C11's case: a query was sent while the three collections held three
\* different stores, and its tool named two of them.
C11_Witness ==
    \E r \in Reqs :
        /\ IsQuery(req[r]) /\ req[r].sent /\ AllDistinct(req[r].reg)
        /\ req[r].tool /\ Len(req[r].toolIds) = 2

\* The selection as C12 words it: the ids of the provisioned collections in
\* registry order, the first occurrence of each kept, padded while fewer than
\* 2 with the pinned legacy ids that are not there yet, cut to 2.
ProvisionedIds(reg) ==
    SelectSeq([i \in 1..Len(COLLECTION_LIST) |-> reg[COLLECTION_LIST[i]]],
              LAMBDA id : id # NULL)
FirstOccurrences(s) ==
    LET keep == SelectSeq([i \in 1..Len(s) |-> i],
                          LAMBDA i : \A j \in 1..(i - 1) : s[j] # s[i])
    IN  [n \in 1..Len(keep) |-> s[keep[n]]]
RECURSIVE Padded(_, _)
Padded(s, legacy) ==
    IF legacy = <<>> THEN s
    ELSE Padded(IF Len(s) < 2 /\ Head(legacy) \notin Range(s)
                THEN s \o <<Head(legacy)>> ELSE s,
                Tail(legacy))
LegacyIds == SelectSeq(<<env["primary"], env["secondary"]>>, LAMBDA id : id # NULL)
FirstTwo(s) == [i \in 1..(IF Len(s) > 2 THEN 2 ELSE Len(s)) |-> s[i]]
GeneralSelection(reg) ==
    FirstTwo(Padded(FirstOccurrences(ProvisionedIds(reg)), LegacyIds))

\* C12: the ids /chatbot and /training/ai-generate select are the provisioned
\* collections' ids in registry order, deduplicated keeping the first
\* occurrence, padded with the pinned legacy ids while fewer than 2, cut to
\* 2; they hold no duplicate and no null.
C12_GeneralSelection ==
    \A r \in Reqs : req[r].op \in {"chat", "ai-generate"} /\ req[r].sent =>
        /\ req[r].ids = GeneralSelection(req[r].reg)
        /\ NoDuplicates(req[r].ids)
        /\ NULL \notin Range(req[r].ids)

\* C12's case: primary and secondary are pinned to the same store, training
\* holds another one, and /chatbot selected the two.
C12_Witness ==
    \E r \in Reqs :
        /\ req[r].op = "chat" /\ req[r].sent
        /\ req[r].reg["primary"] # NULL
        /\ req[r].reg["secondary"] = req[r].reg["primary"]
        /\ req[r].reg["training"] \notin {NULL, req[r].reg["primary"]}
        /\ req[r].ids = <<req[r].reg["primary"], req[r].reg["training"]>>

\* The selection in priority order: training, secondary, primary.
PrioritySelection(reg) ==
    FirstTwo(FirstOccurrences(
        SelectSeq(<<reg["training"], reg["secondary"], reg["primary"]>>,
                  LAMBDA id : id # NULL)))

\* C13 as stated: /training/from-file selects in the order training,
\* secondary, primary, deduplicated and cut to 2, and with all three
\* collections provisioned the set it selects differs from the set the
\* general selection gives on the same registry.
C13_PriorityAlwaysDiffers ==
    \A r \in Reqs : req[r].op = "from-file" /\ req[r].sent =>
        /\ req[r].ids = PrioritySelection(req[r].reg)
        /\ AllProvisioned(req[r].reg) => Range(req[r].ids) # Range(req[r].other)

\* C13 as amended: the same selection; the two selections differ as sets
\* whenever the three collections hold three different ids (training and
\* secondary against primary and secondary).
C13_PriorityDiffersWhenDistinct ==
    \A r \in Reqs : IsQuery(req[r]) /\ req[r].sent =>
        /\ req[r].op = "from-file" =>
              /\ req[r].ids = PrioritySelection(req[r].reg)
              /\ req[r].other = GeneralSelection(req[r].reg)
        /\ req[r].op # "from-file" => req[r].other = PrioritySelection(req[r].reg)
        /\ AllDistinct(req[r].reg) => Range(req[r].ids) # Range(req[r].other)

\* C13's case: /training/from-file ran over three different stores and
\* selected training and secondary where the general selection gives primary
\* and secondary.
C13_Witness ==
    \E r \in Reqs :
        /\ req[r].op = "from-file" /\ req[r].sent /\ AllDistinct(req[r].reg)
        /\ req[r].ids = <<req[r].reg["training"], req[r].reg["secondary"]>>
        /\ req[r].other = <<req[r].reg["primary"], req[r].reg["secondary"]>>

\* C14: a query request is sent upstream with a file_search tool exactly when
\* at least one id was selected, and the tool then names the selected ids;
\* /training/from-file sends nothing while the training collection has no
\* store; and with nothing provisioned or pinned /chatbot sends its request
\* without a tool and answers with vector_store_ids = [].
C14_ToolIffIds ==
    \A r \in Reqs : IsQuery(req[r]) =>
        /\ req[r].sent =>
              /\ req[r].tool <=> Len(req[r].ids) > 0
              /\ req[r].tool => req[r].toolIds = req[r].ids /\ req[r].toolIds # <<>>
              /\ ~req[r].tool => req[r].toolIds = <<>>
        /\ ~req[r].sent => req[r].calls = {} /\ ~req[r].tool
        /\ req[r].op = "chat" /\ req[r].body = "complete"
              /\ (\A k \in FILE_COLLECTIONS : req[r].reg[k] = NULL /\ env[k] = NULL) =>
                  /\ req[r].sent /\ ~req[r].tool
                  /\ req[r].status = 200 => req[r].ids = <<>>

\* C14's case: /chatbot was answered 200 with nothing provisioned or pinned:
\* no tool was sent and vector_store_ids is empty.
C14_Witness ==
    \E r \in Reqs :
        /\ req[r].op = "chat" /\ req[r].status = 200 /\ req[r].reply = "text"
        /\ \A k \in FILE_COLLECTIONS : req[r].reg[k] = NULL /\ env[k] = NULL
        /\ req[r].sent /\ ~req[r].tool /\ req[r].ids = <<>>

\* --- text extraction, stated on the response itself
EmptyResponseError == "Empty response from OpenAI"
NoTextError == "No text output returned from OpenAI response"

\* A request whose upstream call resolved, with the response it resolved with.
Resolved(rec) == IsQuery(rec) /\ rec.pc = "done" /\ rec.upRes = "ok"

NonBlank(x) == \E i \in DOMAIN x : x[i] # " "
Trimmed(x) ==
    LET solid == {i \in DOMAIN x : x[i] # " "}
        lo == CHOOSE i \in solid : \A j \in solid : i <= j
        hi == CHOOSE i \in solid : \A j \in solid : i >= j
    IN  IF solid = {} THEN <<>> ELSE [n \in 1..(hi - lo + 1) |-> x[lo + n - 1]]

\* A string, or an object whose `value` is one, that is not blank.
HasText(v) == v.t \in {"string", "value"} /\ NonBlank(v.s)
TopBlank(resp) == ~(resp.output_text.t = "string" /\ NonBlank(resp.output_text.s))

\* The direct text of a text item, the text of a message item (that of its
\* first content entry that has one), <<>> when the item has none.
DirectOf(item) ==
    IF item.type = "output_text" /\ HasText(item.text) THEN Trimmed(item.text.s)
    ELSE <<>>
MessageOf(item) ==
    LET having == {i \in DOMAIN item.content :
                      item.content[i].type = "output_text" /\ HasText(item.content[i].text)}
        first == CHOOSE i \in having : \A j \in having : i <= j
    IN  IF item.type # "message" \/ having = {} THEN <<>>
        ELSE Trimmed(item.content[first].text.s)

\* The first element of a sequence of texts that is not <<>>.
FirstText(texts) ==
    LET having == {i \in DOMAIN texts : texts[i] # <<>>}
        first == CHOOSE i \in having : \A j \in having : i <= j
    IN  IF having = {} THEN <<>> ELSE texts[first]

\* C15: a response whose top-level output_text is a string that is not blank
\* makes extractResponseText return that string trimmed, whatever its output
\* array holds; no extraction error is raised.
C15_TopLevelTextWins ==
    \A r \in Reqs :
        Resolved(req[r]) /\ req[r].resp.present /\ ~TopBlank(req[r].resp) =>
            /\ req[r].text = Trimmed(req[r].resp.output_text.s)
            /\ req[r].error \notin {EmptyResponseError, NoTextError}

\* C15's case: the top-level text is "a " and the output array holds a text
\* item with another text: "a" was returned.
C15_Witness ==
    \E r \in Reqs :
        /\ Resolved(req[r]) /\ req[r].op = "chat" /\ req[r].status = 200
        /\ req[r].resp.output_text = [t |-> "string", s |-> <<"a", " ">>]
        /\ \E i \in DOMAIN req[r].resp.output :
              DirectOf(req[r].resp.output[i]) = <<"b">>
        /\ req[r].text = <<"a">>

\* What the two stages of C16 give: the first direct text of the whole list,
\* and only when there is none the first message text.
TwoStageText(output) ==
    LET direct == FirstText([i \in DOMAIN output |-> DirectOf(output[i])])
        message == FirstText([i \in DOMAIN output |-> MessageOf(output[i])])
    IN  IF direct # <<>> THEN direct ELSE message

\* What one pass gives: the text of the first item, of either kind, that has
\* one.
OnePassText(output) ==
    FirstText([i \in DOMAIN output |->
                  IF DirectOf(output[i]) # <<>> THEN DirectOf(output[i])
                  ELSE MessageOf(output[i])])

\* C16 as stated: without a top-level text, the direct text items of the
\* whole list are tried before any message item; an absent response fails
\* with the empty-response error, one without any text with the no-text error.
C16_DirectBeforeMessage ==
    \A r \in Reqs : Resolved(req[r]) =>
        /\ ~req[r].resp.present => req[r].error = EmptyResponseError
        /\ req[r].resp.present /\ TopBlank(req[r].resp) =>
              LET t == TwoStageText(req[r].resp.output)
              IN  /\ t # <<>> => req[r].text = t
                  /\ t = <<>> => req[r].error = NoTextError

\* C16 as amended: without a top-level text the list is scanned once and the
\* first item that has a text, direct or of a message, gives the result; an
\* absent response fails with the empty-response error, one without any text
\* with the no-text error.
C16_FirstItemWithText ==
    \A r \in Reqs : IsQuery(req[r]) /\ req[r].pc = "done" /\ req[r].sent =>
        /\ req[r].error = EmptyResponseError <=>
              req[r].upRes = "ok" /\ req[r].resp = NoResponse
        /\ req[r].upRes = "ok" /\ req[r].resp.present /\ TopBlank(req[r].resp) =>
              LET t == OnePassText(req[r].resp.output)
              IN  /\ t # <<>> => req[r].text = t
                  /\ t = <<>> => req[r].error = NoTextError /\ req[r].status = 500
        /\ req[r].error = NoTextError =>
              /\ TopBlank(req[r].resp)
              /\ OnePassText(req[r].resp.output) = <<>>

\* C16's case: a message item with text "a" stands before a text item with
\* text "b", and "a" was returned.
C16_Witness ==
    \E r \in Reqs :
        /\ Resolved(req[r]) /\ req[r].resp.present /\ TopBlank(req[r].resp)
        /\ Len(req[r].resp.output) = 2
        /\ MessageOf(req[r].resp.output[1]) = <<"a">>
        /\ DirectOf(req[r].resp.output[2]) = <<"b">>
        /\ req[r].text = <<"a">>

\* C17 as stated: when the upstream call of a recommendation endpoint
\* succeeds and yields a text without a brace-delimited span, or with one
\* that JSON.parse rejects, the endpoint answers 200 with an empty
\* recommendation list.
C17_UnparsableGivesEmpty ==
    \A r \in Reqs :
        /\ req[r].op \in {"from-file", "ai-generate"} /\ Resolved(req[r])
        /\ req[r].text # <<>>
        /\ (JsonMatch(req[r].text) = <<>> \/ ~JsonParses(JsonMatch(req[r].text)))
        => req[r].status = 200 /\ req[r].reply = "empty"

\* ------------------------------------- claims on the guards of the file routes
\* C18 as stated: an upload to a known collection without a file, or with a
\* zero-byte file, is answered 400 and issues no remote call (so no store is
\* created for the collection).
C18_EmptyUploadRejected ==
    \A r \in Reqs :
        req[r].op = "upload" /\ req[r].key \in FILE_COLLECTIONS
            /\ req[r].file \in {"absent", "empty"} =>
                /\ req[r].pc = "done" /\ req[r].status = 400
                /\ req[r].calls = {}

\* C19: a DELETE on a known collection whose vectorStoreId is null when the
\* request arrives is answered 404 at once, and issues no detach and no
\* files.del (no remote call at all).
C19_DeleteUnprovisioned ==
    \A r \in Reqs :
        req[r].op = "delete" /\ req[r].key \in FILE_COLLECTIONS
            /\ req[r].startReg = NULL =>
                /\ req[r].pc = "done" /\ req[r].status = 404
                /\ req[r].calls = {}
                /\ req[r].detachRes = "none" /\ req[r].delRes = "none"

\* C19's case: such a DELETE was answered while storage held the file it
\* names.
C19_Witness ==
    \E r \in Reqs :
        /\ req[r].op = "delete" /\ req[r].key \in FILE_COLLECTIONS
        /\ req[r].startReg = NULL /\ req[r].status = 404
        /\ req[r].fileId \in storage

\* C20: the step that handles a listing of a known collection whose
\* vectorStoreId is null answers 200 with no files, issues no remote call,
\* and leaves the registry and the remote stores as they were.
C20_ListUnprovisioned ==
    [][\A r \in Reqs :
          /\ req[r].pc = "idle" /\ req'[r].op = "list"
          /\ req'[r].key \in FILE_COLLECTIONS /\ vectorStoreId[req'[r].key] = NULL
          => /\ req'[r].pc = "done" /\ req'[r].status = 200
             /\ req'[r].out = <<>> /\ req'[r].calls = {}
             /\ vectorStoreId' = vectorStoreId /\ stores' = stores]_vars

\* C20's case: such a listing was answered with no files and the collection
\* still has no store.
C20_Witness ==
    \E r \in Reqs :
        /\ req[r].op = "list" /\ req[r].key \in FILE_COLLECTIONS
        /\ req[r].startReg = NULL /\ req[r].pc = "done"
        /\ req[r].status = 200 /\ req[r].out = <<>> /\ req[r].calls = {}
        /\ vectorStoreId[req[r].key] = NULL

\* ------------------------------------------------- claims on the registry
IsFileRequest(rec) == rec.op \in {"list", "upload", "delete"}

\* C21 as stated: a list, upload or delete whose key is none of the three
\* collections is answered 404 and issues no remote call; and nothing but
\* the three collections ever holds a vectorStoreId.
C21_UnknownKeyNotFound ==
    /\ \A r \in Reqs : IsFileRequest(req[r]) /\ req[r].key \notin FILE_COLLECTIONS =>
          /\ req[r].pc = "done" /\ req[r].status = 404
          /\ req[r].calls = {}
    /\ \A k \in DOMAIN vectorStoreId : k \notin FILE_COLLECTIONS => vectorStoreId[k] = NULL

\* C22: a step changes a collection's vectorStoreId only when it is the step
\* of an upload to that collection in which vectorStores.create answers, and
\* that upload found the vectorStoreId null when it called
\* ensureVectorStoreForCollection; a step of a list, a DELETE, /chatbot or a
\* training endpoint changes no vectorStoreId, and a step of an upload
\* changes none but that of its own key.
C22_RegistryFrame ==
    [][/\ \A k \in FILE_COLLECTIONS : vectorStoreId'[k] # vectorStoreId[k] =>
             \E r \in Reqs :
                 /\ req[r].op = "upload" /\ req[r].key = k
                 /\ req[r].pc = "vs_create" /\ req'[r].pc = "file_create"
                 /\ req[r].startReg = NULL
                 /\ \A q \in Reqs \ {r} : req'[q] = req[q]
       /\ \A r \in Reqs : req'[r] # req[r] =>
             /\ req'[r].op # "upload" => vectorStoreId' = vectorStoreId
             /\ req'[r].op = "upload" =>
                   \A k \in DOMAIN vectorStoreId :
                       k # req'[r].key => vectorStoreId'[k] = vectorStoreId[k]]_vars

\* C22's case: an upload provisioned its collection, a query and a file
\* request other than an upload were answered, and the pinned collection
\* still holds the pinned id.
C22_Witness ==
    \E r, q \in Reqs :
        /\ req[r].op = "upload" /\ req[r].vsRes = "ok"
        /\ req[r].key \in FILE_COLLECTIONS /\ vectorStoreId[req[r].key] = req[r].vs
        /\ req[q].op \in {"chat", "ai-generate", "from-file", "list", "delete"}
        /\ req[q].pc = "done" /\ req[q].status = 200
        /\ \E k \in FILE_COLLECTIONS : env[k] # NULL /\ vectorStoreId[k] = env[k]

\* ------------------------------------------------- claims on partial effects
\* An upload that was answered 201 with the file's record, for a file that no
\* DELETE request names.
Uploaded(r) ==
    /\ req[r].op = "upload" /\ req[r].key \in FILE_COLLECTIONS
    /\ req[r].pc = "done" /\ req[r].status = 201 /\ req[r].out # <<>>
    /\ \A q \in Reqs : req[q].op = "delete" => req[q].fileId # req[r].fileId

\* C23 as stated: once an upload to a collection has succeeded for a file
\* (and nobody deletes the file), the file is attached to the store the
\* registry names for that collection, in every interleaving of uploads.
C23_UploadVisible ==
    \A r \in Reqs :
        Uploaded(r) => IsAttached(vectorStoreId[req[r].key], req[r].fileId)

\* A DELETE of file f on a provisioned collection c while f is attached to the
\* store of another provisioned collection and not to c's.
CrossDelete(r) ==
    /\ req[r].op = "delete" /\ req[r].startReg # NULL
    /\ ~req[r].here /\ req[r].elsewhere # {}

\* Request q detached file id from the store of collection d: a DELETE, or the
\* buildFileResponse of a listing or of the upload of the file.
DetachedBy(q, d, id) ==
    /\ req[q].key = d
    /\ \/ req[q].op = "delete" /\ req[q].fileId = id /\ req[q].detachRes = "ok"
       \/ /\ req[q].op \in {"list", "upload"}
          /\ \E i \in 1..Len(req[q].fstate) :
                req[q].files[i].id = id /\ req[q].fstate[i] = "pruned"

\* C24 as stated: a DELETE on a provisioned collection issues files.del for
\* the file whether or not the file was attached to the collection's store; a
\* DELETE of a file attached only to another provisioned collection's store is
\* answered 200, the file's storage record is deleted, the file stays attached
\* to the other store until a request detaches it, and a listing of the other
\* collection that finds it orphaned detaches it and does not return it.
C24_CrossDeleteSucceeds ==
    /\ \A r \in Reqs :
          req[r].op = "delete" /\ req[r].startReg # NULL /\ req[r].pc = "done" =>
              FileDelCall(req[r].fileId) \in req[r].calls
    /\ \A r \in Reqs : CrossDelete(r) /\ req[r].pc = "done" =>
          /\ req[r].status = 200
          /\ req[r].fileId \notin storage
          /\ \A d \in req[r].elsewhere :
                \/ IsAttached(vectorStoreId[d], req[r].fileId)
                \/ \E q \in Reqs : DetachedBy(q, d, req[r].fileId)
    /\ \A r, q \in Reqs :
          /\ CrossDelete(r) /\ req[r].pc = "done"
          /\ req[q].op = "list" /\ req[q].key \in req[r].elsewhere
          /\ req[q].pc = "done" /\ req[q].status = 200
          /\ req[r].fileId \in req[q].orphans
          => /\ DetachCall(req[q].vs, req[r].fileId) \in req[q].calls
             /\ req[r].fileId \notin OutIds(req[q])

\* C24 as amended: a DELETE on a provisioned collection issues files.del for
\* the file exactly when its detach call answers success or 404, whether or not
\* the file was attached to the collection's store; when the file is attached
\* only to another provisioned collection's store, the detach answers 404 and
\* files.del succeeds, the DELETE is answered 200, the storage record is gone
\* and the file stays attached to the other store until a request on that
\* collection detaches it (a DELETE, or buildFileResponse in a listing or in
\* the file's own upload); a listing issues that detach only for an entry with
\* status completed whose files.retrieve answered 404.
C24_CrossDeleteOn404 ==
    /\ \A r \in Reqs : req[r].op = "delete" /\ req[r].startReg # NULL =>
          /\ req[r].detachRes \in {"ok", "404"} =>
                FileDelCall(req[r].fileId) \in req[r].calls
          /\ req[r].detachRes = "err" =>
                /\ FileDelCall(req[r].fileId) \notin req[r].calls
                /\ req[r].status = 500
    /\ \A r \in Reqs :
          CrossDelete(r) /\ req[r].detachRes = "404" /\ req[r].delRes = "ok" =>
              /\ req[r].pc = "done" /\ req[r].status = 200
              /\ req[r].fileId \notin storage
              /\ \A d \in req[r].elsewhere :
                    \/ IsAttached(vectorStoreId[d], req[r].fileId)
                    \/ \E q \in Reqs : DetachedBy(q, d, req[r].fileId)
    /\ \A r, q \in Reqs :
          /\ CrossDelete(r)
          /\ req[q].op = "list" /\ req[q].key \in req[r].elsewhere
          /\ DetachCall(req[q].vs, req[r].fileId) \in req[q].calls
          => \E i \in 1..Len(req[q].files) :
                /\ req[q].files[i].id = req[r].fileId
                /\ req[q].files[i].status = "completed"
                /\ req[q].fres[i] = "404"

\* C24's case: a DELETE on the secondary collection of a file attached only to
\* the primary store got 404 from the detach, deleted the storage record and
\* was answered 200; a listing of the primary collection then pruned the file.
C24_Witness ==
    \E r, q \in Reqs :
        /\ CrossDelete(r) /\ req[r].stored
        /\ req[r].detachRes = "404" /\ req[r].delRes = "ok"
        /\ req[r].pc = "done" /\ req[r].status = 200
        /\ req[q].op = "list" /\ req[q].key \in req[r].elsewhere
        /\ req[q].pc = "done" /\ req[q].status = 200
        /\ DetachedBy(q, req[q].key, req[r].fileId)
        /\ ~IsAttached(vectorStoreId[req[q].key], req[r].fileId)

\* An upload that provisioned a new store and then failed at files.create or
\* at vectorStores.files.create.
FailedAfterProvisioning(r) ==
    /\ req[r].op = "upload" /\ req[r].vsRes = "ok"
    /\ req[r].pc = "done" /\ req[r].files = <<>>

\* C25: an upload that provisioned a new store and whose files.create or attach
\* then failed is answered 500 while the registry still names the new store;
\* when the attach failed after files.create succeeded, the upload issued no
\* compensating files.del and the stored file stays in storage (until a DELETE
\* removes it), attached to no store.
C25_NoRollback ==
    \A r \in Reqs : FailedAfterProvisioning(r) =>
        /\ req[r].status = 500
        /\ vectorStoreId[req[r].key] = req[r].vs
        /\ req[r].fileId # NULL =>
              /\ FileDelCall(req[r].fileId) \notin req[r].calls
              /\ \A a \in attached : a.id # req[r].fileId
              /\ \/ req[r].fileId \in storage
                 \/ \E q \in Reqs : /\ req[q].op = "delete" /\ req[q].delRes = "ok"
                                    /\ req[q].fileId = req[r].fileId

\* C26: a collection seeded with a pinned id holds that id in every reachable
\* state, so the two legacy checks of getActiveVectorStoreIds add nothing to
\* the ids collected from the registry, and the ids /chatbot and
\* /training/ai-generate select are the first two distinct non-null
\* vectorStoreIds of the registry in registry order.
C26_LegacyPaddingNoOp ==
    /\ \A k \in FILE_COLLECTIONS : env[k] # NULL => vectorStoreId[k] = env[k]
    /\ LET ids == Collect(COLLECTION_LIST, <<>>)
       IN  PadLegacy(PadLegacy(ids, env["primary"]), env["secondary"]) = ids
    /\ \A r \in Reqs : req[r].op \in {"chat", "ai-generate"} /\ req[r].sent =>
          req[r].ids = FirstTwo(FirstOccurrences(ProvisionedIds(req[r].reg)))

\* C26's case: /chatbot was called while only the pinned primary collection
\* was provisioned, so fewer than 2 ids were collected and the legacy checks
\* ran on a set pinned id; the selection is that one id.
C26_Witness ==
    \E r \in Reqs :
        /\ req[r].op = "chat" /\ req[r].sent
        /\ env["primary"] # NULL /\ env["secondary"] = NULL
        /\ req[r].reg["primary"] = env["primary"]
        /\ req[r].reg["secondary"] = NULL /\ req[r].reg["training"] = NULL
        /\ req[r].ids = <<env["primary"]>>

====
